---- MODULE Spec2Model ----
(***************************************************************************)
(* AdaGrad optimizer of burn-core (src/burn-core/src/optim/adagrad.rs):    *)
(* the LRDecay gradient transform, the AdaGrad step that composes it with  *)
(* the optional WeightDecay transform, the state's device migration, and   *)
(* the per-parameter registry of the optimizer adaptor that drives them.   *)
(*                                                                         *)
(* Numbers are binary floating point values m * 2^e, rounded to nearest    *)
(* (ties to even) after every operation, as f32 and f64 are; the mantissa  *)
(* widths F32Bits and F64Bits are scaled down so that the rounding cases   *)
(* are within reach of the model checker.  The exponent is unbounded, and  *)
(* a division by zero gives an infinity or a NaN.                          *)
(***************************************************************************)
EXTENDS Integers, Sequences, FiniteSets, TLC

(* ------------------------------ bounds -------------------------------- *)

\* mantissa width of the tensor element type (f32), scaled down
F32Bits == 5
\* mantissa width of the scalar learning-rate arithmetic (f64), scaled down
F64Bits == 7
\* largest number of LRDecay.transform calls in one chain of states
MaxCalls == 4
\* largest number of optimizer steps applied to one parameter
MaxTime == 2

(* --------------------------- floating point --------------------------- *)

RECURSIVE Pow2(_)
Pow2(k) == IF k <= 0 THEN 1 ELSE 2 * Pow2(k - 1)

Abs(x) == IF x < 0 THEN -x ELSE x

Sgn(x) == IF x < 0 THEN -1 ELSE IF x = 0 THEN 0 ELSE 1

\* a finite value m * 2^e, kept with m odd (or m = 0, e = 0)
RECURSIVE Norm(_, _)
Norm(m, e) ==
    IF m = 0 THEN [k |-> "num", m |-> 0, e |-> 0]
    ELSE IF m % 2 = 0 THEN Norm(m \div 2, e + 1)
    ELSE [k |-> "num", m |-> m, e |-> e]

NaN == [k |-> "nan", m |-> 0, e |-> 0]

Inf(s) == [k |-> "inf", m |-> s, e |-> 0]

IsNum(x) == x.k = "num"

Zero == Norm(0, 0)

One == Norm(1, 0)

\* scale the positive ratio n/d by powers of two into [lo, 2 * lo)
RECURSIVE Scale(_, _, _, _)
Scale(n, d, e, lo) ==
    IF n >= 2 * d * lo THEN Scale(n, 2 * d, e + 1, lo)
    ELSE IF n < d * lo THEN Scale(2 * n, d, e - 1, lo)
    ELSE <<n, d, e>>

\* the mantissa q with remainder r over d, rounded to nearest, ties to even
RoundQ(q, r, d) ==
    IF (2 * r > d) \/ (2 * r = d /\ q % 2 = 1) THEN q + 1 ELSE q

RoundS(sign, s) == Norm(sign * RoundQ(s[1] \div s[2], s[1] % s[2], s[2]), s[3])

\* round to nearest, ties to even: the p-bit value nearest to (n/d) * 2^e
RoundTo(p, n, d, e) ==
    IF n = 0 THEN Zero
    ELSE RoundS(Sgn(n), Scale(Abs(n), d, e, Pow2(p - 1)))

MinI(a, b) == IF a <= b THEN a ELSE b

\* x < y on finite values
FLess(x, y) ==
    LET e == MinI(x.e, y.e)
    IN  x.m * Pow2(x.e - e) < y.m * Pow2(y.e - e)

FAdd(p, x, y) ==
    IF x.k = "nan" \/ y.k = "nan" THEN NaN
    ELSE IF x.k = "inf" /\ y.k = "inf" THEN (IF x.m = y.m THEN x ELSE NaN)
    ELSE IF x.k = "inf" THEN x
    ELSE IF y.k = "inf" THEN y
    ELSE LET e == MinI(x.e, y.e)
         IN  RoundTo(p, x.m * Pow2(x.e - e) + y.m * Pow2(y.e - e), 1, e)

FNeg(x) == [x EXCEPT !.m = -x.m]

FSub(p, x, y) == FAdd(p, x, FNeg(y))

FMul(p, x, y) ==
    IF x.k = "nan" \/ y.k = "nan" THEN NaN
    ELSE IF x.k = "inf" \/ y.k = "inf"
         THEN (IF x.m = 0 \/ y.m = 0 THEN NaN ELSE Inf(Sgn(x.m) * Sgn(y.m)))
    ELSE RoundTo(p, x.m * y.m, 1, x.e + y.e)

FDiv(p, x, y) ==
    IF x.k = "nan" \/ y.k = "nan" THEN NaN
    ELSE IF x.k = "inf" THEN (IF y.k = "inf" THEN NaN
                              ELSE Inf(x.m * (IF y.m < 0 THEN -1 ELSE 1)))
    ELSE IF y.k = "inf" THEN Zero
    ELSE IF y.m = 0 THEN (IF x.m = 0 THEN NaN ELSE Inf(Sgn(x.m)))
    ELSE RoundTo(p, x.m * Sgn(y.m), Abs(y.m), x.e - y.e)

RECURSIVE ISqrt(_)
ISqrt(n) ==
    IF n < 2 THEN n
    ELSE LET s == 2 * ISqrt(n \div 4)
         IN  IF (s + 1) * (s + 1) <= n THEN s + 1 ELSE s

\* widen n * 2^e (e even) until the integer root has more than p + 1 bits
RECURSIVE SqrtScale(_, _, _)
SqrtScale(n, e, p) ==
    IF n >= Pow2(2 * p + 2) THEN <<n, e>> ELSE SqrtScale(4 * n, e - 2, p)

\* correctly rounded square root of a finite value
FSqrt(p, x) ==
    IF x.k = "nan" THEN NaN
    ELSE IF x.k = "inf" THEN (IF x.m > 0 THEN x ELSE NaN)
    ELSE IF x.m < 0 THEN NaN
    ELSE IF x.m = 0 THEN Zero
    ELSE LET ev == IF x.e % 2 = 0 THEN <<x.m, x.e>> ELSE <<2 * x.m, x.e - 1>>
             w  == SqrtScale(ev[1], ev[2], p)
             s  == ISqrt(w[1])
             \* the root lies in [s, s+1): 2s+1 over 2 keeps it off every tie
             nn == IF s * s = w[1] THEN 2 * s ELSE 2 * s + 1
         IN  RoundTo(p, nn, 2, w[2] \div 2)

\* conversion of a value to another width (f64 to f32: ElementConversion)
FConv(p, x) == IF IsNum(x) THEN RoundTo(p, x.m, 1, x.e) ELSE x


(* ------------------------------ tensors ------------------------------- *)

\* Option<T>: None, or Some(v)
None == <<>>

Some(v) == <<v>>

IsSome(o) == o # <<>>

Unwrap(o) == o[1]

\* a rank-1 tensor: its device and its elements (f32)
Tensor(d, v) == [dev |-> d, val |-> v]

\* what an operation that panicked leaves: no tensor at all
Poison == [dev |-> "none", val |-> <<>>]

IsPoison(t) == t.val = <<>>

Shape(t) == Len(t.val)

\* shapes an elementwise operation accepts: equal, or one of them 1 (broadcast)
Compatible(a, b) == Shape(a) = Shape(b) \/ Shape(a) = 1 \/ Shape(b) = 1

MaxI(a, b) == IF a >= b THEN a ELSE b

At(t, i) == IF Shape(t) = 1 THEN t.val[1] ELSE t.val[i]

\* one element of an elementwise operation of the backend
Apply(op, x, y) ==
    CASE op = "add"   -> FAdd(F32Bits, x, y)
      [] op = "sub"   -> FSub(F32Bits, x, y)
      [] op = "mul"   -> FMul(F32Bits, x, y)
      [] op = "div"   -> FDiv(F32Bits, x, y)
      [] op = "sqrt"  -> FSqrt(F32Bits, x)
      [] op = "zeros" -> Zero

\* the elements i..n of an elementwise operation, built in order
RECURSIVE EwFrom(_, _, _, _, _)
EwFrom(op, a, b, i, n) ==
    IF i > n THEN <<>>
    ELSE <<Apply(op, At(a, i), At(b, i))>> \o EwFrom(op, a, b, i + 1, n)

\* an elementwise operation; the backend broadcasts a dimension of 1 and
\* panics on any other difference of shape
Ew(op, a, b) ==
    IF IsPoison(a) \/ IsPoison(b) \/ ~Compatible(a, b) THEN Poison
    ELSE Tensor(a.dev, EwFrom(op, a, b, 1, MaxI(Shape(a), Shape(b))))

TAdd(a, b) == Ew("add", a, b)

TSub(a, b) == Ew("sub", a, b)

TDiv(a, b) == Ew("div", a, b)

\* a scalar as a tensor of one element, converted to the element type
Scalar(a, x) == Tensor(a.dev, <<FConv(F32Bits, x)>>)

\* powf(2.)
TPowf2(a) == Ew("mul", a, a)

TSqrt(a) == Ew("sqrt", a, a)

\* add_scalar: the scalar is converted to the element type first
TAddScalar(a, x) == Ew("add", a, Scalar(a, x))

\* mul_scalar: the scalar is converted to the element type first
TMulScalar(a, x) == Ew("mul", a, Scalar(a, x))

\* Tensor::to_device: the same elements on another device
TToDevice(a, d) == [a EXCEPT !.dev = d]

(* ------------------------------ LRDecay ------------------------------- *)

\* LRDecayState { time, sum }
LRDecayState(t, s) == [time |-> t, sum |-> s]

\* LRDecayNewState with the sum overwritten by the last square, not added to
LRDecayNewState_Overwrites(grad, lr_decay_state) ==
    IF IsSome(lr_decay_state)
    THEN LRDecayState(Unwrap(lr_decay_state).time + 1, TPowf2(grad))
    ELSE LRDecayState(1, TPowf2(grad))

\* the state LRDecay.transform returns
LRDecayNewState(grad, lr_decay_state) ==
    IF IsSome(lr_decay_state)
    THEN LRDecayState(Unwrap(lr_decay_state).time + 1,
                      TAdd(Unwrap(lr_decay_state).sum, TPowf2(grad)))
    ELSE LRDecayState(1, TPowf2(grad))

\* time as f64
TimeF64(t) == RoundTo(F64Bits, t, 1, 0)

\* NewLr with the decay counted from time, not from time - 1
NewLr_CountsFromTime(c, rate, time) ==
    FDiv(F64Bits, rate,
         FAdd(F64Bits, One, FMul(F64Bits, TimeF64(time), c.lr_decay)))

\* NewLr with the learning rate multiplied by the decay factor, not divided
NewLr_Multiplies(c, rate, time) ==
    FMul(F64Bits, rate,
         FAdd(F64Bits, One,
              FMul(F64Bits, FSub(F64Bits, TimeF64(time), One), c.lr_decay)))

\* new_lr = lr / (1. + (state.time as f64 - 1.) * self.lr_decay)
NewLr(c, rate, time) ==
    FDiv(F64Bits, rate,
         FAdd(F64Bits, One,
              FMul(F64Bits, FSub(F64Bits, TimeF64(time), One), c.lr_decay)))

\* state.sum.sqrt().add_scalar(self.epsilon)
Divisor(c, sum) == TAddScalar(TSqrt(sum), c.epsilon)

\* grad.div(sqrt(sum) + epsilon).mul_scalar(new_lr)
ScaledGrad(c, grad, rate, state) ==
    TMulScalar(TDiv(grad, Divisor(c, state.sum)), NewLr(c, rate, state.time))

\* LRDecay.transform: <<scaled gradient, new state>>
LRDecayTransform(c, grad, rate, lr_decay_state) ==
    LET state == LRDecayNewState(grad, lr_decay_state)
    IN  <<ScaledGrad(c, grad, rate, state), state>>


(* --------------------------- configuration ---------------------------- *)

\* AdaGradConfig: lr_decay (f64), epsilon (f32), weight_decay (optional
\* penalty); none of the fields is validated, any value is accepted
AdaGradConfig(d, eps, wd) == [lr_decay |-> d, epsilon |-> eps, weight_decay |-> wd]

\* lr_decay values tried: the default 0, 1/2 (the value of the numeric test),
\* and one far below the spacing of the f64 values around 1
LrDecays == {Zero, Norm(1, -1), Norm(1, -8)}

\* epsilon values tried: zero, which the configuration accepts, and 1/8
Epsilons == {Zero, Norm(1, -3)}

\* learning rates tried: 1/8 and 3/4
LearningRates == {Norm(1, -3), Norm(3, -2)}

Penalty == Norm(1, -1)

Devices == {"cpu", "gpu"}

\* the device gradients and parameters live on
DefaultDevice == "cpu"

\* gradients handed to LRDecay.transform directly
LRGrads ==
    { Tensor(DefaultDevice, <<Zero, Zero>>),
      Tensor(DefaultDevice, <<Norm(2, 0), Norm(-1, 0)>>),
      Tensor(DefaultDevice, <<Norm(-1, 0), Norm(3, 0)>>) }

(* ------------------------------- state -------------------------------- *)

VARIABLES
    cfg,        \* the optimizer's configuration
    lr,         \* the learning rate passed to every step
    lrState,    \* Option<LRDecayState> threaded through LRDecay.transform
    lrTrace,    \* the calls of LRDecay.transform made so far, in order
    params,     \* the model: parameter identity -> tensor
    registry,   \* the adaptor's state registry: identity -> Option<AdaGradState>
    err,        \* how the last step failed, if it did
    last        \* the last adaptor operation and its arguments

vars == <<cfg, lr, lrState, lrTrace, params, registry, err, last>>

ParamIds == {"A", "B"}

\* the model's parameters as constructed
InitParams ==
    [id \in ParamIds |->
        IF id = "A" THEN Tensor(DefaultDevice, <<Norm(1, 0), Norm(-1, -1)>>)
        ELSE Tensor(DefaultDevice, <<Zero, Norm(3, -2)>>)]

\* OptimizerAdaptor::from: an empty registry
EmptyRegistry == [id \in ParamIds |-> None]

\* no gradient for any parameter
NoGrads == [id \in {} |-> Poison]

NoOp == [op |-> "none", grads |-> NoGrads, device |-> DefaultDevice]

\* no failure
NoError == [kind |-> "none", id |-> "none"]

\* a panic of a tensor operation: it names no parameter
Panic == [kind |-> "panic", id |-> "none"]

adaptorVars == <<params, registry, err, last>>

(* ------------------ LRDecay.transform called in a chain ---------------- *)

InitLR ==
    /\ cfg \in {AdaGradConfig(d, eps, None) : d \in LrDecays, eps \in Epsilons}
    /\ lr \in LearningRates
    /\ lrState = None
    /\ lrTrace = <<>>
    /\ params = InitParams
    /\ registry = EmptyRegistry
    /\ err = NoError
    /\ last = NoOp

\* one call of LRDecay.transform with the state the previous call returned
LRDecayCall(grad) ==
    /\ Len(lrTrace) < MaxCalls
    /\ IsSome(lrState) => Shape(Unwrap(lrState).sum) = Shape(grad)
    /\ LET r == LRDecayTransform(cfg, grad, lr, lrState)
       IN  /\ lrState' = Some(r[2])
           /\ lrTrace' = Append(lrTrace,
                  [grad |-> grad, prior |-> lrState,
                   new_lr |-> NewLr(cfg, lr, r[2].time),
                   divisor |-> Divisor(cfg, r[2].sum),
                   out |-> r[1], state |-> r[2]])
    /\ UNCHANGED <<cfg, lr, adaptorVars>>

NextLR == \E grad \in LRGrads : LRDecayCall(grad)

SpecLR == InitLR /\ [][NextLR]_vars


(* ----------------------------- WeightDecay ---------------------------- *)

\* WeightDecayState: the decayed gradient of the last step
WeightDecayState(g) == [grad_last_step |-> g]

ZerosLike(t) == Ew("zeros", t, t)

\* WeightDecay.transform: <<decayed gradient, new state>>
WeightDecayTransform(penalty, grad, state) ==
    LET prev == IF IsSome(state) THEN Unwrap(state).grad_last_step
                ELSE ZerosLike(grad)
        g    == TAdd(TMulScalar(prev, penalty), grad)
    IN  <<g, WeightDecayState(g)>>

\* WeightDecayState::to_device
WeightDecayStateToDevice(state, device) ==
    [state EXCEPT !.grad_last_step = TToDevice(@, device)]

(* ------------------------------- AdaGrad ------------------------------ *)

\* AdaGradState { weight_decay, lr_decay }
AdaGradState(wd, lrd) == [weight_decay |-> wd, lr_decay |-> lrd]

\* the gradient and the weight-decay state after the optional WeightDecay
WeightDecayStage(c, grad, state_weight_decay) ==
    IF IsSome(c.weight_decay)
    THEN LET r == WeightDecayTransform(Unwrap(c.weight_decay), grad,
                                       state_weight_decay)
         IN  <<r[1], Some(r[2])>>
    ELSE <<grad, state_weight_decay>>

\* AdaGradStep with LRDecay given the raw gradient, not WeightDecay's output
AdaGradStep_RawGradient(c, rate, tensor, grad, state) ==
    LET state_weight_decay == IF IsSome(state) THEN Unwrap(state).weight_decay
                              ELSE None
        state_lr_decay     == IF IsSome(state) THEN Some(Unwrap(state).lr_decay)
                              ELSE None
        wd  == WeightDecayStage(c, grad, state_weight_decay)
        lrd == LRDecayTransform(c, grad, rate, state_lr_decay)
    IN  <<TSub(tensor, lrd[1]), Some(AdaGradState(wd[2], lrd[2]))>>

\* AdaGrad::step: <<updated tensor, Some(new state)>>
AdaGradStep(c, rate, tensor, grad, state) ==
    LET state_weight_decay == IF IsSome(state) THEN Unwrap(state).weight_decay
                              ELSE None
        state_lr_decay     == IF IsSome(state) THEN Some(Unwrap(state).lr_decay)
                              ELSE None
        wd  == WeightDecayStage(c, grad, state_weight_decay)
        lrd == LRDecayTransform(c, wd[1], rate, state_lr_decay)
    IN  <<TSub(tensor, lrd[1]), Some(AdaGradState(wd[2], lrd[2]))>>

\* LRDecayState::to_device
LRDecayStateToDevice(state, device) ==
    [state EXCEPT !.sum = TToDevice(@, device)]

\* AdaGradToDevice with the lr_decay state left where it was
AdaGradToDevice_SkipsLRDecay(state, device) ==
    [state EXCEPT
        !.weight_decay = IF IsSome(@)
                         THEN Some(WeightDecayStateToDevice(Unwrap(@), device))
                         ELSE None]

\* AdaGrad::to_device
AdaGradToDevice(state, device) ==
    [state EXCEPT
        !.weight_decay = IF IsSome(@)
                         THEN Some(WeightDecayStateToDevice(Unwrap(@), device))
                         ELSE None,
        !.lr_decay = LRDecayStateToDevice(@, device)]

(* ------------------------------- records ------------------------------ *)

\* a tensor's record: its elements, without the device
TensorIntoRecord(t) == t.val

\* a tensor restored from its record, on the default device
TensorFromRecord(data) == Tensor(DefaultDevice, data)

\* derive(Record) of LRDecayState
LRDecayStateIntoRecord(state) ==
    [time |-> state.time, sum |-> TensorIntoRecord(state.sum)]

\* LRDecayStateFromRecord with time not restored from the record
LRDecayStateFromRecord_ResetsTime(item) ==
    LRDecayState(1, TensorFromRecord(item.sum))

LRDecayStateFromRecord(item) ==
    LRDecayState(item.time, TensorFromRecord(item.sum))

\* derive(Record) of WeightDecayState
WeightDecayStateIntoRecord(state) ==
    [grad_last_step |-> TensorIntoRecord(state.grad_last_step)]

WeightDecayStateFromRecord(item) ==
    WeightDecayState(TensorFromRecord(item.grad_last_step))

\* derive(Record) of AdaGradState
AdaGradStateIntoRecord(state) ==
    [weight_decay |-> IF IsSome(state.weight_decay)
                      THEN Some(WeightDecayStateIntoRecord(Unwrap(state.weight_decay)))
                      ELSE None,
     lr_decay |-> LRDecayStateIntoRecord(state.lr_decay)]

AdaGradStateFromRecord(item) ==
    AdaGradState(IF IsSome(item.weight_decay)
                 THEN Some(WeightDecayStateFromRecord(Unwrap(item.weight_decay)))
                 ELSE None,
                 LRDecayStateFromRecord(item.lr_decay))

(* -------------------------- OptimizerAdaptor -------------------------- *)

\* the identities that have an entry in a registry
Ids(reg) == {id \in ParamIds : IsSome(reg[id])}

\* to_record: one item per identity of the registry
ToRecord(reg) == [id \in Ids(reg) |-> AdaGradStateIntoRecord(Unwrap(reg[id]))]

\* load_record: the registry is replaced by the record's contents
LoadRecord(record, old) ==
    [id \in ParamIds |->
        IF id \in DOMAIN record THEN Some(AdaGradStateFromRecord(record[id]))
        ELSE None]

\* the order in which the adaptor visits the parameters of the model
ParamOrder == <<"A", "B">>

Position(id) == CHOOSE i \in 1..Len(ParamOrder) : ParamOrder[i] = id

\* VisitFrom with a parameter that has no gradient stepped with a zero one
RECURSIVE VisitFrom_ZeroGradient(_, _, _, _, _, _)
VisitFrom_ZeroGradient(c, rate, ps, reg, grads, i) ==
    IF i > Len(ParamOrder) THEN <<>>
    ELSE LET id == ParamOrder[i]
         IN  <<AdaGradStep(c, rate, ps[id],
                           IF id \in DOMAIN grads THEN grads[id]
                           ELSE ZerosLike(ps[id]),
                           reg[id])>>
             \o VisitFrom_ZeroGradient(c, rate, ps, reg, grads, i + 1)

\* the visit of the parameters from position i on: a parameter with a
\* gradient is stepped, one without keeps its value and its state
RECURSIVE VisitFrom(_, _, _, _, _, _)
VisitFrom(c, rate, ps, reg, grads, i) ==
    IF i > Len(ParamOrder) THEN <<>>
    ELSE LET id == ParamOrder[i]
         IN  <<IF id \in DOMAIN grads
               THEN AdaGradStep(c, rate, ps[id], grads[id], reg[id])
               ELSE <<ps[id], reg[id]>>>>
             \o VisitFrom(c, rate, ps, reg, grads, i + 1)

\* the per-parameter results of a step over the gradient mapping
StepResults(c, rate, ps, reg, grads) == VisitFrom(c, rate, ps, reg, grads, 1)

StepPanics(results) == \E i \in 1..Len(results) : IsPoison(results[i][1])

\* the model after a step
StepParams(results) == [id \in ParamIds |-> results[Position(id)][1]]

\* the registry after a step
StepRegistry(results) == [id \in ParamIds |-> results[Position(id)][2]]

\* to_device of the adaptor: every state of the registry is migrated
RegistryToDevice(reg, device) ==
    [id \in ParamIds |->
        IF IsSome(reg[id]) THEN Some(AdaGradToDevice(Unwrap(reg[id]), device))
        ELSE None]

\* gradients of the parameters' shape
GoodGrads ==
    { Tensor(DefaultDevice, <<Zero, Zero>>),
      Tensor(DefaultDevice, <<Norm(2, 0), Norm(-1, 0)>>) }

\* gradients of another shape: one the backend broadcasts, one it rejects
BadGrads ==
    { Tensor(DefaultDevice, <<Norm(2, 0)>>),
      Tensor(DefaultDevice, <<One, Zero, Norm(-1, 0)>>) }

StepGrads == GoodGrads \cup BadGrads

\* the gradient mappings of a step: any subset of the parameters has one
GradMappings == UNION {[S -> StepGrads] : S \in SUBSET ParamIds}

\* a record saved by another optimizer, one configured with weight decay,
\* after one step on parameter "A"
ForeignRecord ==
    LET c == AdaGradConfig(Zero, Norm(1, -3), Some(Penalty))
        g == [id \in {"A"} |-> Tensor(DefaultDevice, <<Norm(2, 0), Norm(-1, 0)>>)]
    IN  ToRecord(StepRegistry(
            StepResults(c, Norm(1, -3), InitParams, EmptyRegistry, g)))

Init ==
    /\ cfg \in {AdaGradConfig(Norm(1, -1), Norm(1, -3), wd) :
                    wd \in {None, Some(Penalty)}}
    /\ lr = Norm(1, -3)
    /\ lrState = None
    /\ lrTrace = <<>>
    /\ params = InitParams
    /\ registry = EmptyRegistry
    /\ err = NoError
    /\ last = NoOp

Time(reg, id) == IF IsSome(reg[id]) THEN Unwrap(reg[id]).lr_decay.time ELSE 0

\* Optimizer::step of the adaptor over the model and a gradient mapping; a
\* stored state is on the device of the gradient it is stepped with, as the
\* tensor operations require of their operands
OptimizerStep(grads) ==
    /\ err = NoError
    /\ \A id \in DOMAIN grads :
          /\ Time(registry, id) < MaxTime
          /\ IsSome(registry[id]) =>
                Unwrap(registry[id]).lr_decay.sum.dev = grads[id].dev
    /\ \E results \in {StepResults(cfg, lr, params, registry, grads)} :
           IF StepPanics(results)
           THEN /\ err' = Panic
                /\ UNCHANGED <<params, registry>>
           ELSE /\ err' = NoError
                /\ params' = StepParams(results)
                /\ registry' = StepRegistry(results)
    /\ last' = [op |-> "step", grads |-> grads, device |-> DefaultDevice]
    /\ UNCHANGED <<cfg, lr, lrState, lrTrace>>

\* Optimizer::to_device of the adaptor
ToDevice(device) ==
    /\ err = NoError
    /\ registry' = RegistryToDevice(registry, device)
    /\ last' = [op |-> "to_device", grads |-> NoGrads, device |-> device]
    /\ UNCHANGED <<cfg, lr, lrState, lrTrace, params, err>>

\* to_record, then load_record into a freshly created optimizer
SaveLoad ==
    /\ err = NoError
    /\ registry' = LoadRecord(ToRecord(registry), EmptyRegistry)
    /\ last' = [op |-> "load", grads |-> NoGrads, device |-> DefaultDevice]
    /\ UNCHANGED <<cfg, lr, lrState, lrTrace, params, err>>

\* load_record of a record saved by another optimizer, before any step
LoadForeign ==
    /\ err = NoError
    /\ registry = EmptyRegistry
    /\ registry' = LoadRecord(ForeignRecord, registry)
    /\ last' = [op |-> "load_foreign", grads |-> NoGrads, device |-> DefaultDevice]
    /\ UNCHANGED <<cfg, lr, lrState, lrTrace, params, err>>

Next ==
    \/ \E grads \in GradMappings : OptimizerStep(grads)
    \/ \E device \in Devices : ToDevice(device)
    \/ SaveLoad
    \/ LoadForeign

Spec == Init /\ [][Next]_vars


(* ======================= LRDecay.transform ============================ *)

\* element i of g_1*g_1 + ... + g_k*g_k over the gradients of the first k
\* calls, added in the order of the calls
RECURSIVE SumOfSquares(_, _, _)
SumOfSquares(trace, k, i) ==
    IF k = 0 THEN Zero
    ELSE FAdd(F32Bits, SumOfSquares(trace, k - 1, i),
              FMul(F32Bits, trace[k].grad.val[i], trace[k].grad.val[i]))

Elems(t) == 1..Shape(t)

\* C1: in a chain of LRDecay.transform calls that starts from an absent
\* state, each call receiving the state the previous one returned, the state
\* returned by call k has time = k and sum = g_1*g_1 + ... + g_k*g_k in every
\* element; time grows by exactly 1 per call and no element of sum decreases.
C1_Accumulation ==
    \A k \in 1..Len(lrTrace) :
        LET call == lrTrace[k]
        IN  /\ call.prior = IF k = 1 THEN None ELSE Some(lrTrace[k - 1].state)
            /\ call.state.time = k
            /\ Shape(call.state.sum) = Shape(call.grad)
            /\ \A i \in Elems(call.grad) :
                  call.state.sum.val[i] = SumOfSquares(lrTrace, k, i)
            /\ k > 1 =>
                  /\ call.state.time = lrTrace[k - 1].state.time + 1
                  /\ \A i \in Elems(call.grad) :
                        ~FLess(call.state.sum.val[i], lrTrace[k - 1].state.sum.val[i])
            /\ k = Len(lrTrace) => lrState = Some(call.state)

\* three calls made, and an element of sum has grown since the first
C1_Witness ==
    /\ Len(lrTrace) >= 3
    /\ \E i \in Elems(lrTrace[1].grad) :
          FLess(lrTrace[1].state.sum.val[i], lrTrace[3].state.sum.val[i])

\* C2: a call with an absent prior state returns time = 1 and sum = g*g in
\* every element, and the effective learning rate it scales the gradient
\* with is the learning rate itself, whatever lr_decay is.
C2_FirstStep ==
    \A k \in 1..Len(lrTrace) :
        LET call == lrTrace[k]
        IN  call.prior = None =>
              /\ call.state.time = 1
              /\ call.new_lr = lr
              /\ \A i \in Elems(call.grad) :
                    LET g == call.grad.val[i]
                        sq == FMul(F32Bits, g, g)
                    IN  /\ call.state.sum.val[i] = sq
                        /\ call.out.val[i] =
                              FMul(F32Bits,
                                   FDiv(F32Bits, g,
                                        FAdd(F32Bits, FSqrt(F32Bits, sq),
                                             FConv(F32Bits, cfg.epsilon))),
                                   FConv(F32Bits, lr))

\* a first call with a gradient that is not zero, under a decay that is not zero
C2_Witness ==
    /\ Len(lrTrace) = 1
    /\ lrTrace[1].prior = None
    /\ cfg.lr_decay # Zero
    /\ lrTrace[1].grad.val[1] # Zero

\* C3 as stated: with lr_decay > 0 the effective learning rate of each call
\* is strictly less than that of the call before; with lr_decay = 0 it is lr
\* at every call.
C3_StrictDecay ==
    /\ FLess(Zero, cfg.lr_decay) =>
          \A k \in 1..(Len(lrTrace) - 1) :
              FLess(lrTrace[k + 1].new_lr, lrTrace[k].new_lr)
    /\ cfg.lr_decay = Zero =>
          \A k \in 1..Len(lrTrace) : lrTrace[k].new_lr = lr

\* C3 amended: with lr_decay > 0 the effective learning rate of each call is
\* never greater than that of the call before (the quotient is rounded, so a
\* decay below the spacing of the values around 1 leaves it equal); with
\* lr_decay = 0 it is lr at every call.
C3_Decay ==
    /\ FLess(Zero, cfg.lr_decay) =>
          \A k \in 1..(Len(lrTrace) - 1) :
              ~FLess(lrTrace[k].new_lr, lrTrace[k + 1].new_lr)
    /\ cfg.lr_decay = Zero =>
          \A k \in 1..Len(lrTrace) : lrTrace[k].new_lr = lr

\* a second call whose effective learning rate is below the first call's
C3_Witness ==
    /\ Len(lrTrace) >= 2
    /\ FLess(Zero, cfg.lr_decay)
    /\ FLess(lrTrace[2].new_lr, lrTrace[1].new_lr)

AllZero(t) == \A i \in Elems(t) : t.val[i] = Zero

\* C10: in every call, for every epsilon the configuration accepts, every
\* element of the divisor sqrt(sum) + epsilon is strictly positive and the
\* returned time is not zero; a first call with a zero gradient returns a
\* zero scaled gradient.
C10_DivisorPositive ==
    \A k \in 1..Len(lrTrace) :
        LET call == lrTrace[k]
        IN  /\ \A i \in Elems(call.divisor) :
                  IsNum(call.divisor.val[i]) /\ FLess(Zero, call.divisor.val[i])
            /\ call.state.time # 0
            /\ (call.prior = None /\ AllZero(call.grad)) => AllZero(call.out)


(* ====================== AdaGrad and the adaptor ======================= *)

\* the sub-states of a prior composite state
PriorWeightDecay(prior) == IF IsSome(prior) THEN Unwrap(prior).weight_decay ELSE None

PriorLRDecay(prior) == IF IsSome(prior) THEN Some(Unwrap(prior).lr_decay) ELSE None

\* the gradient LRDecay has to be given: the output of WeightDecay when it is
\* configured, and of the identity transform when it is not
Decayed(g, prior) ==
    IF IsSome(cfg.weight_decay)
    THEN WeightDecayTransform(Unwrap(cfg.weight_decay), g, PriorWeightDecay(prior))[1]
    ELSE g

\* effective_lr * g / (sqrt(sum) + epsilon) for the gradient d LRDecay is given
Update(d, state) ==
    TMulScalar(TDiv(d, TAddScalar(TSqrt(state.sum), cfg.epsilon)),
               NewLr(cfg, lr, state.time))

\* C4, one step: from every state of a parameter and for every gradient,
\* AdaGrad step accumulates the square of the decayed gradient (the raw one
\* when weight decay is not configured) and returns the parameter minus
\* effective_lr * decayed / (sqrt(sum) + epsilon).
C4_OneStep ==
    (last'.op = "step" /\ err' = NoError) =>
        \A id \in DOMAIN last'.grads :
            \A d \in {Decayed(last'.grads[id], registry[id])} :
                \A state \in {IF IsSome(registry[id])
                              THEN LRDecayState(
                                       Unwrap(registry[id]).lr_decay.time + 1,
                                       TAdd(Unwrap(registry[id]).lr_decay.sum,
                                            TPowf2(d)))
                              ELSE LRDecayState(1, TPowf2(d))} :
                    /\ IsSome(registry'[id])
                    /\ Unwrap(registry'[id]).lr_decay = state
                    /\ params'[id] = TSub(params[id], Update(d, state))

\* C4, two steps: from an absent state, two steps give the parameter minus
\* the update of the first step, minus the update of the second.
C4_TwoSteps ==
    \A id \in ParamIds, g1 \in GoodGrads, g2 \in GoodGrads :
        registry[id] = None =>
            LET r1 == AdaGradStep(cfg, lr, params[id], g1, None)
                r2 == AdaGradStep(cfg, lr, r1[1], g2, r1[2])
                d1 == Decayed(g1, None)
                s1 == LRDecayState(1, TPowf2(d1))
                d2 == Decayed(g2, r1[2])
                s2 == LRDecayState(2, TAdd(s1.sum, TPowf2(d2)))
            IN  r2[1] = TSub(TSub(params[id], Update(d1, s1)), Update(d2, s2))

\* C4: AdaGrad step runs WeightDecay on the raw gradient, LRDecay on its
\* output, and subtracts LRDecay's output from the parameter; without weight
\* decay the pipeline is the one with the identity in its place; two steps
\* from an absent state subtract the two updates.
C4_Pipeline == [][C4_OneStep]_vars /\ []C4_TwoSteps

\* a second step of "A" under weight decay has changed the parameter
C4_Witness ==
    /\ last.op = "step"
    /\ "A" \in DOMAIN last.grads
    /\ err = NoError
    /\ IsSome(cfg.weight_decay)
    /\ Time(registry, "A") = 2
    /\ params["A"] # InitParams["A"]

\* a registry no step of this optimizer produced: the foreign record, loaded
StaleRegistry == LoadRecord(ForeignRecord, EmptyRegistry)

\* the weight-decay sub-state's elements, when present
WeightDecayValues(state) ==
    IF IsSome(state.weight_decay)
    THEN Some(Unwrap(state.weight_decay).grad_last_step.val)
    ELSE None

C6_Isolation ==
    [][ (last'.op = "step" /\ err' = NoError) =>
            \A id \in ParamIds :
                IF id \in DOMAIN last'.grads
                THEN \A r \in {AdaGradStep(cfg, lr, params[id], last'.grads[id],
                                           registry[id])} :
                         params'[id] = r[1] /\ registry'[id] = r[2]
                ELSE params'[id] = params[id] /\ registry'[id] = registry[id]
      ]_vars

\* "B" alone was stepped while "A", stepped before, kept its entry
C6_Witness ==
    /\ last.op = "step"
    /\ err = NoError
    /\ DOMAIN last.grads = {"B"}
    /\ Time(registry, "A") = 1
    /\ Time(registry, "B") = 2

\* C7: to_device leaves time, the elements of sum and of the weight-decay
\* accumulator and the presence of the weight-decay sub-state as they were,
\* puts the tensors on the device, and applied twice gives what it gives once.
C7_ToDevice ==
    \A id \in Ids(registry), device \in Devices :
        LET a == Unwrap(registry[id])
            b == AdaGradToDevice(a, device)
        IN  /\ b.lr_decay.time = a.lr_decay.time
            /\ b.lr_decay.sum.val = a.lr_decay.sum.val
            /\ b.lr_decay.sum.dev = device
            /\ IsSome(b.weight_decay) <=> IsSome(a.weight_decay)
            /\ WeightDecayValues(b) = WeightDecayValues(a)
            /\ IsSome(b.weight_decay) =>
                  Unwrap(b.weight_decay).grad_last_step.dev = device
            /\ AdaGradToDevice(b, device) = b

\* a registry migrated to the other device, with a weight-decay sub-state
C7_Witness ==
    /\ last.op = "to_device"
    /\ last.device # DefaultDevice
    /\ \E id \in Ids(registry) :
          /\ IsSome(Unwrap(registry[id]).weight_decay)
          /\ Unwrap(registry[id]).lr_decay.sum.dev = last.device

\* the ShapeMismatch condition of a parameter
ShapeMismatch(id) == [kind |-> "ShapeMismatch", id |-> id]

\* the gradient's shape differs from the parameter's or the prior sum's
Misshapen(ps, reg, id, g) ==
    \/ Shape(g) # Shape(ps[id])
    \/ IsSome(reg[id]) /\ Shape(g) # Shape(Unwrap(reg[id]).lr_decay.sum)

\* C8: a step with a gradient whose shape differs from the parameter's or
\* from the prior sum's fails with the ShapeMismatch condition of that
\* parameter and writes neither its value nor its state.
C8_ShapeMismatch ==
    [][ \A id \in ParamIds :
            ( /\ last'.op = "step"
              /\ id \in DOMAIN last'.grads
              /\ Misshapen(params, registry, id, last'.grads[id]) ) =>
                /\ err'.kind = "ShapeMismatch"
                /\ err'.id \in {x \in DOMAIN last'.grads :
                                    Misshapen(params, registry, x, last'.grads[x])}
                /\ params'[id] = params[id]
                /\ registry'[id] = registry[id]
      ]_vars

\* C9: the state AdaGrad step returns, from any prior state, holds the
\* lr_decay sub-state, and holds a weight-decay sub-state exactly when weight
\* decay is configured.
C9_WeightDecayPresence ==
    \A id \in ParamIds, g \in GoodGrads :
        LET r == AdaGradStep(cfg, lr, params[id], g, registry[id])
        IN  /\ IsSome(r[2])
            /\ Unwrap(r[2]).lr_decay.time >= 1
            /\ IsSome(Unwrap(r[2]).weight_decay) <=> IsSome(cfg.weight_decay)

====
